---- MODULE Spec2Model ----
(***************************************************************************)
(* Model of covid_dashboard.py: a Streamlit script that is re-executed    *)
(* from top to bottom on every user interaction.  One run calls the       *)
(* memoized fetch_data(), reads the sidebar widgets, plots one sliced     *)
(* column per selected chart on the shared axes and emits the figure.     *)
(***************************************************************************)
EXTENDS Integers, Sequences, FiniteSets, TLC

(* ---------------------------- bounds ----------------------------------- *)
\* longest feed (number of JSON records) the endpoint answers with
MaxFeed == 2
\* the date pickers range from the day before DefaultStart to PickSpan days after it
PickSpan == 1

(* ---------------------------- values ----------------------------------- *)
\* a missing numeric field (pandas NaN); real values are naturals
NaN == 0 - 1

\* the option labels and the column each one plots (two of the entries)
options ==
    [l \in {"Cumulative Positive Results", "Cumulative Deaths"} |->
        IF l = "Cumulative Positive Results" THEN "positive" ELSE "death"]

Labels == DOMAIN options

\* raw `date` values of the feed that are calendar dates
RawDates == {20200229, 20200301, 20200302}

\* a raw `date` value that is no calendar date
BadRawDate == 20200230

\* field values of one feed record
Rows == { [positive |-> 1, death |-> NaN],
          [positive |-> 2, death |-> 1] }

RawRecords == { [date |-> d, positive |-> r.positive, death |-> r.death] :
                    d \in RawDates, r \in Rows }
              \cup { [date |-> BadRawDate, positive |-> 1, death |-> 1] }

\* every JSON array of at most MaxFeed records
Feeds == UNION { [1..n -> RawRecords] : n \in 0..MaxFeed }

\* what the GET of the endpoint can produce
Responses == { [kind |-> "unreachable", body |-> <<>>],
               [kind |-> "malformed", body |-> <<>>] }
             \cup { [kind |-> "json", body |-> f] : f \in Feeds }

NoResponse == [kind |-> "none", body |-> <<>>]

(* ---------------------------- dates ------------------------------------ *)
IsLeap(y) == (y % 4 = 0 /\ y % 100 # 0) \/ y % 400 = 0

DaysInMonth(y, m) ==
    IF m = 2 THEN (IF IsLeap(y) THEN 29 ELSE 28)
    ELSE IF m \in {4, 6, 9, 11} THEN 30 ELSE 31

RECURSIVE DaysBeforeMonth(_, _)
DaysBeforeMonth(y, m) ==
    IF m <= 1 THEN 0 ELSE DaysBeforeMonth(y, m - 1) + DaysInMonth(y, m - 1)

\* proleptic Gregorian day number of a calendar date
ToOrdinal(y, m, d) ==
    365 * (y - 1) + ((y - 1) \div 4) - ((y - 1) \div 100) + ((y - 1) \div 400)
      + DaysBeforeMonth(y, m) + d

\* strptime with "%Y%m%d" accepts the value
ParsesAsDate(raw) ==
    LET y == raw \div 10000
        m == (raw \div 100) % 100
        d == raw % 100
    IN  /\ y >= 1 /\ y <= 9999
        /\ m >= 1 /\ m <= 12
        /\ d >= 1 /\ d <= DaysInMonth(y, m)

\* the day the value denotes
ParseDate(raw) == ToOrdinal(raw \div 10000, (raw \div 100) % 100, raw % 100)

\* pd.to_datetime(df['date'], format="%Y%m%d") over the whole column
to_datetime(body) ==
    [i \in 1..Len(body) |->
        [date |-> ParseDate(body[i].date),
         positive |-> body[i].positive,
         death |-> body[i].death]]

\* datetime(2020,3,1), default of the start picker
DefaultStart == ToOrdinal(2020, 3, 1)

PickDates == (DefaultStart - 1)..(DefaultStart + PickSpan)

\* a response fetch_data can turn into a table
ValidFeed(resp) ==
    /\ resp.kind = "json"
    /\ resp.body # <<>>
    /\ \A i \in 1..Len(resp.body) : ParsesAsDate(resp.body[i].date)

\* what is kept of a response: a valid feed whole, of any other only that
\* it was unreachable, not JSON, an empty array or held a date that is none
Observed(resp) ==
    IF ValidFeed(resp) THEN resp
    ELSE IF resp.kind # "json" THEN resp
    ELSE IF resp.body = <<>> THEN [kind |-> "empty", body |-> <<>>]
    ELSE [kind |-> "baddate", body |-> <<>>]

(* ---------------------------- fetch_data ------------------------------- *)
IsSorted(t) == \A i \in 1..Len(t) - 1 : t[i].date <= t[i + 1].date

sort_index_none(rows) == {rows}

\* df.sort_index(ascending=True): the default sort kind is not stable, so
\* rows of equal date may come out in any relative order
sort_index(rows) ==
    { t \in { [i \in 1..Len(rows) |-> rows[p[i]]] : p \in Permutations(1..Len(rows)) } :
        IsSorted(t) }

Failure(err) == [ok |-> FALSE, error |-> err, table |-> <<>>]

\* index of the last record carrying the same date as record i
LastOfDate(rows, i) ==
    CHOOSE j \in 1..Len(rows) :
        /\ rows[j].date = rows[i].date
        /\ \A k \in 1..Len(rows) : rows[k].date = rows[i].date => k <= j

drop_duplicates_keep_last(rows) ==
    SelectSeq([i \in 1..Len(rows) |-> [row |-> rows[i], keep |-> LastOfDate(rows, i) = i]],
              LAMBDA x : x.keep)

fetch_data_keep_last(resp) ==
    IF resp.kind # "json" THEN {Failure("FetchError")}
    ELSE IF resp.body = <<>> THEN {Failure("KeyError")}
    ELSE IF \E i \in 1..Len(resp.body) : ~ParsesAsDate(resp.body[i].date)
         THEN {Failure("ParseError")}
    ELSE LET kept == drop_duplicates_keep_last(to_datetime(resp.body))
         IN  { [ok |-> TRUE, error |-> "", table |-> t] :
                 t \in sort_index([i \in 1..Len(kept) |-> kept[i].row]) }

fetch_data_fallback(resp) ==
    IF resp.kind = "json" /\ resp.body # <<>>
       /\ \A i \in 1..Len(resp.body) : ParsesAsDate(resp.body[i].date)
    THEN { [ok |-> TRUE, error |-> "", table |-> t] :
             t \in sort_index(to_datetime(resp.body)) }
    ELSE { [ok |-> TRUE, error |-> "", table |-> <<>>] }

\* the body of fetch_data on one response of the endpoint: read_json raises
\* when the endpoint is unreachable or the text is not JSON, df['date']
\* raises on a frame without columns, to_datetime raises on a value that is
\* no date; set_index keeps every row
fetch_data(resp) ==
    IF resp.kind # "json" THEN {Failure("FetchError")}
    ELSE IF resp.body = <<>> THEN {Failure("KeyError")}
    ELSE IF \E i \in 1..Len(resp.body) : ~ParsesAsDate(resp.body[i].date)
         THEN {Failure("ParseError")}
    ELSE { [ok |-> TRUE, error |-> "", table |-> t] :
             t \in sort_index(to_datetime(resp.body)) }

(* ---------------------------- the memo --------------------------------- *)
Absent == [some |-> FALSE, val |-> <<>>]

Some(t) == [some |-> TRUE, val |-> t]

cache_lookup_never(c) == FALSE

\* @st.cache: a stored return value answers the call
cache_lookup(c) == c.some

(* ---------------------------- rendering -------------------------------- *)
\* numpy searchsorted over the sorted index of a series
SearchSorted(s, v, side) ==
    IF side = "left"
    THEN Cardinality({ i \in 1..Len(s) : s[i].date < v })
    ELSE Cardinality({ i \in 1..Len(s) : s[i].date <= v })

loc_slice_open_start(s, first, last) ==
    SubSeq(s, SearchSorted(s, first, "right") + 1, SearchSorted(s, last, "right"))

\* .loc[first : last] on a monotonic DatetimeIndex: both labels inclusive
loc_slice(s, first, last) ==
    SubSeq(s, SearchSorted(s, first, "left") + 1, SearchSorted(s, last, "right"))

\* df[col]: the column as a date-indexed series
Column(t, col) == [i \in 1..Len(t) |-> [date |-> t[i].date, value |-> t[i][col]]]

\* df[options[chart]].loc[start_date : end_date + timedelta(days=1)]
Sliced(t, chart, first, last) ==
    loc_slice(Column(t, options[chart]), first, last + 1)

\* Series.plot draws a line through the values and leaves a gap at a NaN
PlotPoints(s) == SelectSeq(s, LAMBDA p : p.value # NaN)

plot_lines_dropna_frame(t, first, last, sel) ==
    LET full == SelectSeq(t, LAMBDA r : \A q \in sel : r[options[q]] # NaN)
    IN  [c \in sel |-> PlotPoints(Sliced(full, c, first, last))]

\* the loop over charts: one labelled line per selected chart on the axes
plot_lines(t, first, last, sel) ==
    [c \in sel |-> PlotPoints(Sliced(t, c, first, last))]

st_pyplot_skip_blank(fig) == IF DOMAIN fig = {} THEN <<>> ELSE <<fig>>

\* st.pyplot(): the current figure is written to the page, whatever it holds
st_pyplot(fig) == <<fig>>

script_body_inplace(t, first, last, sel) ==
    [df |-> loc_slice(t, first, last + 1),
     plotted |-> [c \in sel |-> Sliced(t, c, first, last)],
     figures |-> st_pyplot(plot_lines(t, first, last, sel))]

\* the script after df = fetch_data(): the frame it leaves behind, the
\* series handed to .plot and the figures written to the page
script_body(t, first, last, sel) ==
    [df |-> t,
     plotted |-> [c \in sel |-> Sliced(t, c, first, last)],
     figures |-> st_pyplot(plot_lines(t, first, last, sel))]

(* ---------------------------- state ------------------------------------ *)
VARIABLES
    cache,       \* the value @st.cache holds for fetch_data, if any
    response,    \* the last answer of the endpoint
    attempts,    \* network requests made by the last run
    source,      \* how the last run's fetch_data call was answered
    status,      \* "idle" before the first run, then "ok" or "error"
    df,          \* the script's global df in the last run
    start_date,  \* sidebar start date of the last run
    end_date,    \* sidebar end date of the last run
    charts,      \* labels selected in the last run
    plotted,     \* per selected label, the series .plot was called on
    figures,     \* figures written to the page by the last run
    texts        \* text elements written to the page by the last run

vars == <<cache, response, attempts, source, status, df,
          start_date, end_date, charts, plotted, figures, texts>>

NoDate == 0

Init ==
    /\ cache = Absent
    /\ response = NoResponse
    /\ attempts = 0
    /\ source = "none"
    /\ status = "idle"
    /\ df = Absent
    /\ start_date = NoDate
    /\ end_date = NoDate
    /\ charts = {}
    /\ plotted = <<>>
    /\ figures = <<>>
    /\ texts = <<>>

\* the run from line 15 on, with the table fetch_data returned; the cached
\* object and df are one object, so what the body does to df it does to the memo
Page(t, first, last, sel) ==
    \E body \in {script_body(t, first, last, sel)} :
        /\ status' = "ok"
        /\ df' = Some(body.df)
        /\ cache' = Some(body.df)
        /\ start_date' = first
        /\ end_date' = last
        /\ charts' = sel
        /\ plotted' = body.plotted
        /\ figures' = body.figures
        /\ texts' = <<"title", "subheader">>

\* the exception of fetch_data ends the run at line 14; Streamlit shows it
ErrorPage(err) ==
    /\ status' = "error"
    /\ df' = Absent
    /\ cache' = cache
    /\ start_date' = NoDate
    /\ end_date' = NoDate
    /\ charts' = {}
    /\ plotted' = <<>>
    /\ figures' = <<>>
    /\ texts' = <<err>>

\* one run of the script in which fetch_data goes to the network: resp is
\* the answer of the endpoint, res what fetch_data makes of it
RerunFetch ==
    /\ ~cache_lookup(cache)
    /\ \E resp \in Responses : \E res \in fetch_data(resp) :
          /\ response' = Observed(resp)
          /\ attempts' = 1
          /\ source' = "network"
          /\ IF res.ok
             THEN \E first \in PickDates, last \in PickDates, sel \in SUBSET Labels :
                     Page(res.table, first, last, sel)
             ELSE ErrorPage(res.error)

\* one run of the script in which the memo answers fetch_data
RerunCached ==
    /\ cache_lookup(cache)
    /\ UNCHANGED response
    /\ attempts' = 0
    /\ source' = "cached"
    /\ \E first \in PickDates, last \in PickDates, sel \in SUBSET Labels :
          Page(cache.val, first, last, sel)

Next == RerunFetch \/ RerunCached

Spec == Init /\ [][Next]_vars

TypeOK ==
    /\ attempts \in 0..1
    /\ source \in {"none", "network", "cached"}
    /\ status \in {"idle", "ok", "error"}
    /\ cache.some \in BOOLEAN
    /\ df.some \in BOOLEAN
    /\ charts \subseteq Labels
    /\ Len(figures) <= 1

(* ---------------------------- properties ------------------------------- *)
\* number of positions of s holding r
Count(s, r) == Cardinality({ i \in DOMAIN s : s[i] = r })

\* the records of table t dated within first..last, in table order
InRange(s, first, last) ==
    SelectSeq(s, LAMBDA p : first <= p.date /\ p.date <= last)

C3_InclusiveRange ==
    status = "ok" =>
        \A c \in charts :
            plotted[c] = InRange(Column(df.val, options[c]), start_date, end_date)

\* C4: a range whose start is later than its end plots an empty series for
\* every selected metric.
C4_ReversedRangeEmpty ==
    (status = "ok" /\ start_date > end_date) =>
        \A c \in charts : plotted[c] = <<>>

\* C5 as stated: the process asks the network for the feed at most once:
\* after the run that made the first call of fetch_data, no run makes a
\* network request.
C5_AtMostOneFetch ==
    [][source # "none" => attempts' = 0]_vars

\* C5 amended: once a fetch has succeeded the process asks the network no
\* more; every later run gets the memoized table from fetch_data.
C5_MemoAfterSuccess ==
    [][cache.some => (attempts' = 0 /\ df' = cache)]_vars

\* a run answered by the memo
C5_Witness ==
    /\ source = "cached"
    /\ status = "ok"
    /\ attempts = 0
    /\ df = cache

\* C6: a run whose fetch failed shows the error and nothing else: no figure,
\* no series, one request only, nothing memoized.
C6_FailureIsVisible ==
    (source = "network" /\ ~ValidFeed(response)) =>
        /\ status = "error"
        /\ Len(texts) = 1
        /\ figures = <<>>
        /\ plotted = <<>>
        /\ attempts = 1
        /\ ~df.some
        /\ ~cache.some

\* a run that ended in the error of a date that does not parse
C6_Witness ==
    /\ status = "error"
    /\ response.kind = "baddate"
    /\ texts = <<"ParseError">>

\* C7 as stated: with no metric selected the run writes no figure.
C7_NoFigure ==
    (status = "ok" /\ charts = {}) => figures = <<>>

\* C7 amended: with no metric selected the run writes one figure that holds
\* no series.
C7_BlankFigure ==
    (status = "ok" /\ charts = {}) =>
        /\ Len(figures) = 1
        /\ DOMAIN figures[1] = {}
        /\ plotted = <<>>

\* a successful run with nothing selected
C7_Witness ==
    /\ status = "ok"
    /\ charts = {}
    /\ cache.some
    /\ Len(figures) = 1

C9_FullRangeIsWhole ==
    (/\ status = "ok"
     /\ \A i \in DOMAIN df.val : start_date <= df.val[i].date /\ df.val[i].date <= end_date
     /\ \E i \in DOMAIN df.val : df.val[i].date = start_date
     /\ \E i \in DOMAIN df.val : df.val[i].date = end_date)
        => \A c \in charts : plotted[c] = Column(df.val, options[c])

\* a table of several dates plotted over exactly the dates it covers
C9_Witness ==
    /\ status = "ok"
    /\ charts # {}
    /\ start_date < end_date
    /\ df.val[1].date = start_date
    /\ df.val[Len(df.val)].date = end_date
    /\ \A c \in charts : Len(plotted[c]) = Len(df.val)

\* C10: no run changes the table once it is held.
C10_TableUnchanged ==
    [][cache.some => cache' = cache]_vars

\* a run answered by the memo that plotted only a part of the table
C10_Witness ==
    /\ source = "cached"
    /\ status = "ok"
    /\ \E c \in charts : Len(plotted[c]) < Len(cache.val)
====
